---- MODULE Spec2Model ----
(***************************************************************************)
(* State-machine model of datamanager.DataManager: a pickle log file of    *)
(* single-key dicts, the in-memory key list __keys, and the compaction     *)
(* routine _update that rewrites the log through the file tmp.pkl.         *)
(***************************************************************************)
EXTENDS Integers, Sequences, FiniteSets, TLC

\* ------------------------------------------------------------------ bounds
\* Longest kwargs of one add call.
MaxBatch == 2
\* Longest targets tuple of one loads call.
MaxTargets == 2

\* Keys and values the operations draw their arguments from.
Keys == {"a", "b", "c"}
Values == {"v1", "v2"}

\* An object pickle cannot serialise (a lambda, an open file): pickle.dump raises
\* for it before anything is written.
Unpicklable == "lambda"

\* The values a caller may pass.
Objects == Values \cup {Unpicklable}

\* Python's None; stored values are never None in this model.
None == "None"

\* ------------------------------------------------------------- file system
\* The name every compaction uses for its temporary file.
tmp == "tmp.pkl"
\* The files of the store directory.
Paths == {"data.pkl", tmp}

\* A file that does not exist, and a file opened with mode 'wb'.
Absent == [exists |-> FALSE, data |-> <<>>]
Truncated == [exists |-> TRUE, data |-> <<>>]

VARIABLES
    keys,   \* self.__keys: list of the keys that exist
    file,   \* self.__file: path of the management file
    fs,     \* the directory: path -> [exists, data], data a sequence of pickled frames
    last,   \* the last completed call: its name, arguments and outcome
    old     \* __keys and the directory as the last call found them

vars == <<keys, file, fs, last, old>>

\* ------------------------------------------------------------------ pickle
\* pickle.dumps of a one-key dict: a self-delimiting frame <<key, value>>.
pickle_dumps(dict_) ==
    LET key == CHOOSE k \in DOMAIN dict_ : TRUE IN <<key, dict_[key]>>

\* pickle.load of one frame: the dict {key: value}.
pickle_load(frame) == frame[1] :> frame[2]

\* `x in list`.
In(x, list) == \E i \in DOMAIN list : list[i] = x

\* The dicts _get_generator yields, in file order; nothing if the file is missing.
_get_generator(file_, fs_) ==
    IF ~fs_[file_].exists
    THEN <<>>
    ELSE [i \in 1..Len(fs_[file_].data) |-> pickle_load(fs_[file_].data[i])]

\* --------------------------------------------------------------- _update
\* The frames _update writes to tmp: every scanned dict with a key in __keys.
RECURSIVE live_frames(_, _)
live_frames(keys_, dicts) ==
    IF dicts = <<>>
    THEN <<>>
    ELSE LET dict_ == Head(dicts)
             rest == live_frames(keys_, Tail(dicts))
         IN IF \E key \in DOMAIN dict_ : In(key, keys_)
            THEN <<pickle_dumps(dict_)>> \o rest
            ELSE rest

\* open(...) of the management file in place of tmp.
update_open_tmp_on_log(fs_) == [fs_ EXCEPT !["data.pkl"] = Truncated]

\* open(tmp, 'wb')
update_open_tmp(fs_) == [fs_ EXCEPT ![tmp] = Truncated]

\* the loop over _get_generator writing to tmp
update_write_tmp(keys_, file_, fs_) ==
    [fs_ EXCEPT ![tmp].data = live_frames(keys_, _get_generator(file_, fs_))]

\* open(tmp, 'wb') in place of open(tmp, 'rb') next to open(self.__file, 'wb').
update_open_both(file_, fs_) == [fs_ EXCEPT ![file_] = Truncated, ![tmp] = Truncated]

\* open(self.__file, 'wb')
update_open_file(file_, fs_) == [fs_ EXCEPT ![file_] = Truncated]

\* o.write(i.read())
update_copy(file_, fs_) == [fs_ EXCEPT ![file_].data = fs_[tmp].data]

\* tmp.unlink()
update_unlink(fs_) == [fs_ EXCEPT ![tmp] = Absent]

\* _update without its scan filter: every record is kept.
_update_keep_all(keys_, file_, fs_) ==
    update_unlink(update_copy(file_, update_open_file(file_,
        [update_open_tmp(fs_) EXCEPT ![tmp].data = fs_[file_].data])))

\* _update that writes the surviving records last to first.
RECURSIVE reversed(_)
reversed(seq) == IF seq = <<>> THEN <<>> ELSE reversed(Tail(seq)) \o <<Head(seq)>>

_update_reversed(keys_, file_, fs_) ==
    update_unlink(update_copy(file_, update_open_file(file_,
        [update_open_tmp(fs_) EXCEPT
            ![tmp].data = reversed(live_frames(keys_, _get_generator(file_, fs_)))])))

\* _update that rewrites the management file directly, with no temporary file.
_update_in_place(keys_, file_, fs_) ==
    [fs_ EXCEPT ![file_] =
        [exists |-> TRUE, data |-> live_frames(keys_, _get_generator(file_, fs_))]]

\* _update: the resulting directory.
_update(keys_, file_, fs_) ==
    update_unlink(
        update_copy(file_,
            update_open_file(file_,
                update_write_tmp(keys_, file_,
                    update_open_tmp(fs_)))))

\* ------------------------------------------------------------ _setup_keys
\* The keys read back from the management file, in file order.
RECURSIVE scanned_keys(_)
scanned_keys(dicts) ==
    IF dicts = <<>>
    THEN <<>>
    ELSE <<CHOOSE k \in DOMAIN Head(dicts) : TRUE>> \o scanned_keys(Tail(dicts))

\* _setup_keys that never reads the file.
_setup_keys_no_scan(create_newly, file_, fs_) ==
    [keys |-> <<>>, fs |-> _update(<<>>, file_, fs_)]

\* _setup_keys that skips the closing _update.
_setup_keys_no_update(create_newly, file_, fs_) ==
    LET keys_ == IF ~create_newly THEN scanned_keys(_get_generator(file_, fs_)) ELSE <<>>
    IN [keys |-> keys_, fs |-> fs_]

\* _setup_keys: the new key list and directory.
_setup_keys(create_newly, file_, fs_) ==
    LET keys_ == IF ~create_newly THEN scanned_keys(_get_generator(file_, fs_)) ELSE <<>>
    IN [keys |-> keys_, fs |-> _update(keys_, file_, fs_)]

\* The default of __init__'s create_newly.
create_newly_default == TRUE

\* -------------------------------------------------------------------- add
\* Whether pickle.dump({key: value}, f) completes.
dump_ok(value) == value # Unpicklable

\* open(self.__file, 'ab') and pickle.dump({key: value}, f).
append(file_, fs_, key, value) ==
    [fs_ EXCEPT ![file_] =
        [exists |-> TRUE, data |-> Append(fs_[file_].data, pickle_dumps(key :> value))]]

\* open(self.__file, 'ab') followed by a pickle.dump that raises: the file is
\* created if it was missing and nothing is written.
append_failed(file_, fs_) == [fs_ EXCEPT ![file_].exists = TRUE]

\* add without the `key in self.__keys` test.
RECURSIVE add_no_check(_, _, _, _)
add_no_check(keys_, file_, fs_, kwargs) ==
    IF kwargs = <<>>
    THEN [keys |-> keys_, fs |-> fs_]
    ELSE LET e == Head(kwargs) IN
         IF ~dump_ok(e.value)
         THEN add_no_check(keys_, file_, append_failed(file_, fs_), Tail(kwargs))
         ELSE add_no_check(Append(keys_, e.key), file_,
                           append(file_, fs_, e.key, e.value), Tail(kwargs))

\* add that gives up at the first entry whose append raises.
RECURSIVE add_stop_at_failure(_, _, _, _)
add_stop_at_failure(keys_, file_, fs_, kwargs) ==
    IF kwargs = <<>>
    THEN [keys |-> keys_, fs |-> fs_]
    ELSE LET e == Head(kwargs) IN
         IF In(e.key, keys_)
         THEN add_stop_at_failure(keys_, file_, fs_, Tail(kwargs))
         ELSE IF ~dump_ok(e.value)
         THEN [keys |-> keys_, fs |-> append_failed(file_, fs_)]
         ELSE add_stop_at_failure(Append(keys_, e.key), file_,
                                  append(file_, fs_, e.key, e.value), Tail(kwargs))

\* add(**kwargs): kwargs is the sequence of entries [key, value] in dict order.
RECURSIVE add(_, _, _, _)
add(keys_, file_, fs_, kwargs) ==
    IF kwargs = <<>>
    THEN [keys |-> keys_, fs |-> fs_]
    ELSE LET e == Head(kwargs) IN
         IF In(e.key, keys_)
         THEN add(keys_, file_, fs_, Tail(kwargs))
         ELSE IF ~dump_ok(e.value)
         THEN add(keys_, file_, append_failed(file_, fs_), Tail(kwargs))
         ELSE add(Append(keys_, e.key), file_,
                  append(file_, fs_, e.key, e.value), Tail(kwargs))

\* ----------------------------------------------------------------- exists
exists(keys_, key) == In(key, keys_)

\* ------------------------------------------------------------------- load
\* Outcomes of a call: a returned value or a raised ValueError with its text.
Returned(v) == [exc |-> "", msg |-> "", val |-> v]
Raised(msg) == [exc |-> "ValueError", msg |-> msg, val |-> None]

\* load that treats every call as non-strict.
load_never_raises(keys_, file_, fs_, key, strict) ==
    LET dicts == _get_generator(file_, fs_)
        hits == {i \in DOMAIN dicts : key \in DOMAIN dicts[i]}
    IN IF In(key, keys_) /\ hits # {}
       THEN Returned(dicts[CHOOSE i \in hits : \A j \in hits : i <= j][key])
       ELSE Returned(None)

\* load(key, strict)
load(keys_, file_, fs_, key, strict) ==
    LET dicts == _get_generator(file_, fs_)
        hits == {i \in DOMAIN dicts : key \in DOMAIN dicts[i]}
    IN IF In(key, keys_) /\ hits # {}
       THEN Returned(dicts[CHOOSE i \in hits : \A j \in hits : i <= j][key])
       ELSE IF strict
       THEN Raised("Failed to read key")
       ELSE Returned(None)

\* ------------------------------------------------------------------ loads
\* objects after the scan: position i holds the value of the last scanned
\* dict whose key is targets[i] (targets.index gives the first position).
loads_objects(dicts, targets) ==
    [i \in 1..Len(targets) |->
        LET hits == {j \in DOMAIN dicts :
                        /\ targets[i] \in DOMAIN dicts[j]
                        /\ \A h \in 1..(i - 1) : targets[h] # targets[i]}
        IN IF hits = {}
           THEN None
           ELSE dicts[CHOOSE j \in hits : \A h \in hits : h <= j][targets[i]]]

\* loads without the duplicate test.
loads_no_dup_check(keys_, file_, fs_, targets, strict) ==
    IF targets = <<>>
    THEN Raised("Please set the key one or more.")
    ELSE IF (\E i \in DOMAIN targets : ~In(targets[i], keys_)) /\ strict
    THEN Raised("It contains a key that does not exist in the target")
    ELSE Returned(loads_objects(_get_generator(file_, fs_), targets))

\* loads that returns the values in the order the scan meets them.
loads_in_scan_order(keys_, file_, fs_, targets, strict) ==
    IF targets = <<>>
    THEN Raised("Please set the key one or more.")
    ELSE IF Len(targets) # Cardinality({targets[i] : i \in DOMAIN targets})
    THEN Raised("Key is a duplicate.")
    ELSE IF (\E i \in DOMAIN targets : ~In(targets[i], keys_)) /\ strict
    THEN Raised("It contains a key that does not exist in the target")
    ELSE LET dicts == _get_generator(file_, fs_)
             wanted == {targets[i] : i \in DOMAIN targets}
             met == SelectSeq(dicts, LAMBDA d : DOMAIN d \subseteq wanted)
         IN Returned([i \in 1..Len(targets) |->
                IF i <= Len(met)
                THEN met[i][CHOOSE k \in DOMAIN met[i] : TRUE]
                ELSE None])

\* loads(*targets, strict)
loads(keys_, file_, fs_, targets, strict) ==
    IF targets = <<>>
    THEN Raised("Please set the key one or more.")
    ELSE IF Len(targets) # Cardinality({targets[i] : i \in DOMAIN targets})
    THEN Raised("Key is a duplicate.")
    ELSE IF (\E i \in DOMAIN targets : ~In(targets[i], keys_)) /\ strict
    THEN Raised("It contains a key that does not exist in the target")
    ELSE Returned(loads_objects(_get_generator(file_, fs_), targets))

\* ----------------------------------------------------------------- remove
\* del self.__keys[self.__keys.index(key)]: drop the first occurrence.
del_first(keys_, key) ==
    LET index == CHOOSE i \in DOMAIN keys_ :
                    keys_[i] = key /\ \A j \in 1..(i - 1) : keys_[j] # key
    IN SubSeq(keys_, 1, index - 1) \o SubSeq(keys_, index + 1, Len(keys_))

\* remove that forgets the _update.
remove_no_update(keys_, file_, fs_, key) ==
    IF In(key, keys_)
    THEN [keys |-> del_first(keys_, key), fs |-> fs_]
    ELSE [keys |-> keys_, fs |-> fs_]

\* remove(key)
remove(keys_, file_, fs_, key) ==
    IF In(key, keys_)
    THEN LET keys2 == del_first(keys_, key)
         IN [keys |-> keys2, fs |-> _update(keys2, file_, fs_)]
    ELSE [keys |-> keys_, fs |-> fs_]

\* ---------------------------------------------------------------- rewrite
\* rewrite that ignores should_add.
rewrite_always_adds(keys_, file_, fs_, key, value, should_add) ==
    LET r == remove(keys_, file_, fs_, key)
    IN add(r.keys, file_, r.fs, <<[key |-> key, value |-> value]>>)

\* rewrite that leaves the store alone when the new value cannot be dumped.
rewrite_keeps_old_on_failure(keys_, file_, fs_, key, value, should_add) ==
    IF (In(key, keys_) \/ should_add) /\ dump_ok(value)
    THEN LET r == remove(keys_, file_, fs_, key)
         IN add(r.keys, file_, r.fs, <<[key |-> key, value |-> value]>>)
    ELSE [keys |-> keys_, fs |-> fs_]

\* rewrite(key, value, should_add)
rewrite(keys_, file_, fs_, key, value, should_add) ==
    IF In(key, keys_) \/ should_add
    THEN LET r == remove(keys_, file_, fs_, key)
         IN add(r.keys, file_, r.fs, <<[key |-> key, value |-> value]>>)
    ELSE [keys |-> keys_, fs |-> fs_]

\* ------------------------------------------------------------------- show
\* The (key, value) pairs show prints: the raw scan of the file.
show(file_, fs_) == _get_generator(file_, fs_)

\* --------------------------------------------------------------- arguments
Entries == [key : Keys, value : Objects]

RECURSIVE SeqsUpTo(_, _)
SeqsUpTo(S, n) ==
    IF n = 0
    THEN {<<>>}
    ELSE LET shorter == SeqsUpTo(S, n - 1)
         IN shorter \cup {Append(s, x) : s \in shorter, x \in S}

\* kwargs is a dict: its keys are distinct.
Batches ==
    {b \in SeqsUpTo(Entries, MaxBatch) :
        \A i, j \in DOMAIN b : i # j => b[i].key # b[j].key}

TargetTuples == SeqsUpTo(Keys, MaxTargets)

\* ----------------------------------------------------------------- actions
\* What a call finds when it starts.
Found == [keys |-> keys, fs |-> fs]

\* DataManager(file_name, create_newly=...) on the same path; prev is the call
\* that came before the construction.
Open(create_newly) ==
    LET r == _setup_keys(create_newly, file, fs)
    IN /\ keys' = r.keys
       /\ fs' = r.fs
       /\ last' = [op |-> "open", create_newly |-> create_newly, prev |-> last.op]
       /\ old' = Found
       /\ UNCHANGED file

\* __exit__
Close ==
    /\ fs' = _update(keys, file, fs)
    /\ last' = [op |-> "close"]
    /\ old' = Found
    /\ UNCHANGED <<keys, file>>

Add(kwargs) ==
    LET r == add(keys, file, fs, kwargs)
    IN /\ keys' = r.keys
       /\ fs' = r.fs
       /\ last' = [op |-> "add", kwargs |-> kwargs]
       /\ old' = Found
       /\ UNCHANGED file

Exists(key) ==
    /\ last' = [op |-> "exists", key |-> key, result |-> exists(keys, key)]
    /\ old' = Found
    /\ UNCHANGED <<keys, file, fs>>

\* load(key, strict); __getitem__ is Load(key, TRUE).
Load(key, strict) ==
    /\ last' = [op |-> "load", key |-> key, strict |-> strict,
                result |-> load(keys, file, fs, key, strict)]
    /\ old' = Found
    /\ UNCHANGED <<keys, file, fs>>

Loads(targets, strict) ==
    /\ last' = [op |-> "loads", targets |-> targets, strict |-> strict,
                result |-> loads(keys, file, fs, targets, strict)]
    /\ old' = Found
    /\ UNCHANGED <<keys, file, fs>>

Remove(key) ==
    LET r == remove(keys, file, fs, key)
    IN /\ keys' = r.keys
       /\ fs' = r.fs
       /\ last' = [op |-> "remove", key |-> key]
       /\ old' = Found
       /\ UNCHANGED file

\* rewrite(key, value, should_add=...); __setitem__ is Rewrite(key, value, TRUE).
Rewrite(key, value, should_add) ==
    LET r == rewrite(keys, file, fs, key, value, should_add)
    IN /\ keys' = r.keys
       /\ fs' = r.fs
       /\ last' = [op |-> "rewrite", key |-> key, value |-> value,
                   should_add |-> should_add]
       /\ old' = Found
       /\ UNCHANGED file

\* A first DataManager constructed in an empty directory.
InitFor(file_) ==
    LET empty_dir == [p \in Paths |-> Absent]
        r == _setup_keys(create_newly_default, file_, empty_dir)
    IN /\ file = file_
       /\ keys = r.keys
       /\ fs = r.fs
       /\ last = [op |-> "open", create_newly |-> create_newly_default, prev |-> ""]
       /\ old = [keys |-> <<>>, fs |-> empty_dir]

\* The store of this specification has a file name of its own; a store whose
\* file is tmp.pkl itself starts from InitFor(tmp).
Init == InitFor("data.pkl")

Next ==
    \/ \E create_newly \in BOOLEAN : Open(create_newly)
    \/ Close
    \/ \E kwargs \in Batches : Add(kwargs)
    \/ \E key \in Keys : Exists(key)
    \/ \E key \in Keys, strict \in BOOLEAN : Load(key, strict)
    \/ \E targets \in TargetTuples, strict \in BOOLEAN : Loads(targets, strict)
    \/ \E key \in Keys : Remove(key)
    \/ \E key \in Keys, value \in Objects, should_add \in BOOLEAN :
          Rewrite(key, value, should_add)

Spec == Init /\ [][Next]_vars

\* ------------------------------------------------------------ observations
\* The dicts currently in the management file, and those the last call found.
log == _get_generator(file, fs)
old_log == _get_generator(file, old.fs)

\* The positions of the records of key k in a scan.
records_of(dicts, k) == {i \in DOMAIN dicts : k \in DOMAIN dicts[i]}

\* The positions of key k in a key list.
positions_of(keys_, k) == {i \in DOMAIN keys_ : keys_[i] = k}

\* The entries of kwargs whose key is not in keys_.
RECURSIVE new_entries(_, _)
new_entries(keys_, kwargs) ==
    IF kwargs = <<>>
    THEN <<>>
    ELSE IF In(Head(kwargs).key, keys_)
    THEN new_entries(keys_, Tail(kwargs))
    ELSE <<Head(kwargs)>> \o new_entries(keys_, Tail(kwargs))

IsValueError(result) == result.exc = "ValueError"

\* What load(k, strict=True) returns now, and what it returned when the last
\* call started.
load_now(k) == load(keys, file, fs, k, TRUE)
load_old(k) == load(old.keys, file, old.fs, k, TRUE)

\* The last call left __keys and every file as it found them.
Untouched == keys = old.keys /\ fs = old.fs

\* ------------------------------------------------------------------ claims

\* C1: round trip. After an add that appended an entry {k: v} (k not in the
\* index when the call started, the dump of v completing), load(k,
\* strict=True) returns v, whatever state the store was in before.
C1_RoundTrip ==
    last.op = "add" =>
        \A i \in DOMAIN last.kwargs :
            LET e == last.kwargs[i] IN
            (~In(e.key, old.keys) /\ dump_ok(e.value)) =>
                load_now(e.key) = Returned(e.value)

\* An add on a non-empty store has appended a new key and load returns its value.
C1_Witness ==
    /\ last.op = "add"
    /\ old.keys # <<>>
    /\ \E i \in DOMAIN last.kwargs :
          LET e == last.kwargs[i] IN
          /\ ~In(e.key, old.keys)
          /\ dump_ok(e.value)
          /\ load_now(e.key) = Returned(e.value)

\* C2: the example of add's docstring. After __exit__ on a store that holds
\* keys, DataManager(file) with the default create_newly followed by load(k)
\* returns the value stored for k.
C2_DocstringReopen ==
    (last.op = "open" /\ last.prev = "close"
        /\ last.create_newly = create_newly_default) =>
        \A k \in Keys :
            In(k, old.keys) => load_now(k) = load_old(k)

\* C3: reopen rebuilds the index. DataManager(file, create_newly=False) after
\* __exit__ has exactly the keys that were live at the close, in the same
\* order, and load returns for each the value it had at the close.
C3_ReopenRebuilds ==
    (last.op = "open" /\ last.prev = "close" /\ ~last.create_newly) =>
        /\ keys = old.keys
        /\ \A k \in Keys :
              /\ exists(keys, k) = exists(old.keys, k)
              /\ In(k, old.keys) =>
                    /\ ~IsValueError(load_old(k))
                    /\ load_now(k) = load_old(k)

\* A store reopened with create_newly=False right after a close, holding two
\* keys and lacking a third.
C3_Witness ==
    /\ last.op = "open"
    /\ ~last.create_newly
    /\ last.prev = "close"
    /\ Len(old.keys) >= 2
    /\ Len(keys) >= 2
    /\ \E k \in Keys : ~exists(keys, k)

\* C4: after every completed call the management file holds exactly one
\* record for each key of the index.
C4_OneRecordPerKey ==
    \A k \in Keys :
        In(k, keys) => Cardinality(records_of(log, k)) = 1

\* A rewrite of a key that existed, on a store holding another key as well.
C4_Witness ==
    /\ last.op = "rewrite"
    /\ In(last.key, old.keys)
    /\ In(last.key, keys)
    /\ Len(keys) >= 2
    /\ Cardinality(records_of(log, last.key)) = 1

\* C5: add does not overwrite. For an entry whose key k is already in the
\* index, add leaves k's place in the index, k's records in the file and the
\* value load(k) returns as they were; the call has the effect of the same
\* call without those entries, so the new keys of the batch are still added.
C5_NoOverwriteViaAdd ==
    last.op = "add" =>
        /\ \A i \in DOMAIN last.kwargs :
              LET k == last.kwargs[i].key IN
              In(k, old.keys) =>
                  /\ positions_of(keys, k) = positions_of(old.keys, k)
                  /\ records_of(log, k) = records_of(old_log, k)
                  /\ load_now(k) = load_old(k)
        /\ [keys |-> keys, fs |-> fs] =
              add(old.keys, file, old.fs, new_entries(old.keys, last.kwargs))
        /\ \A i \in DOMAIN last.kwargs :
              LET e == last.kwargs[i] IN
              (~In(e.key, old.keys) /\ dump_ok(e.value)) => In(e.key, keys)

\* An add whose batch held a key already stored with another value, which
\* kept its value, and a new key, which was added.
C5_Witness ==
    /\ last.op = "add"
    /\ \E i, j \in DOMAIN last.kwargs :
          LET e == last.kwargs[i] IN
          /\ In(e.key, old.keys)
          /\ dump_ok(e.value)
          /\ ~IsValueError(load_now(e.key))
          /\ load_now(e.key) # Returned(e.value)
          /\ ~In(last.kwargs[j].key, old.keys)
          /\ In(last.kwargs[j].key, keys)

\* C6 as stated: after rewrite(k, v2) of a key k of the index, load(k,
\* strict=True) returns v2 and exists(k) is true.
C6_RewriteReplaces ==
    (last.op = "rewrite" /\ In(last.key, old.keys)) =>
        /\ exists(keys, last.key)
        /\ load_now(last.key) = Returned(last.value)

\* C6 amended: after rewrite(k, v2) of a key k of the index in which the
\* append of the new record completes, load(k, strict=True) returns v2 and
\* exists(k) is true.
C6_RewriteReplacesWhenAppended ==
    (last.op = "rewrite" /\ In(last.key, old.keys) /\ dump_ok(last.value)) =>
        /\ exists(keys, last.key)
        /\ load_now(last.key) = Returned(last.value)

\* A rewrite of a key that held another value, after which load returns the
\* new value.
C6_Witness ==
    /\ last.op = "rewrite"
    /\ In(last.key, old.keys)
    /\ dump_ok(last.value)
    /\ load_old(last.key) # Returned(last.value)
    /\ load_now(last.key) = Returned(last.value)

\* C7: DataManager(file, create_newly=True) has an empty index and shows no
\* old data: exists is false, strict load raises, and non-strict load and
\* non-strict loads return None for every key.
C7_ResetHidesOldData ==
    (last.op = "open" /\ last.create_newly) =>
        /\ keys = <<>>
        /\ \A k \in Keys :
              /\ ~exists(keys, k)
              /\ IsValueError(load(keys, file, fs, k, TRUE))
              /\ load(keys, file, fs, k, FALSE) = Returned(None)
        /\ \A targets \in TargetTuples :
              ~IsValueError(loads(keys, file, fs, targets, FALSE)) =>
                  loads(keys, file, fs, targets, FALSE)
                      = Returned([i \in 1..Len(targets) |-> None])

\* A store opened with create_newly=True on a file that held records.
C7_Witness ==
    /\ last.op = "open"
    /\ last.create_newly
    /\ Len(old_log) >= 2
    /\ keys = <<>>

\* C8: remove(k) of a key of the index deletes k from the index and leaves no
\* record of k in the file; remove(k) of any other key changes neither, so a
\* second remove(k) changes nothing.
C8_Remove ==
    last.op = "remove" =>
        LET k == last.key
            again == remove(keys, file, fs, k)
        IN /\ In(k, old.keys) =>
                 /\ ~exists(keys, k)
                 /\ IsValueError(load_now(k))
                 /\ records_of(log, k) = {}
           /\ ~In(k, old.keys) => Untouched
           /\ again.keys = keys /\ again.fs = fs

\* A remove of a key that existed, on a store that keeps another key.
C8_Witness ==
    /\ last.op = "remove"
    /\ In(last.key, old.keys)
    /\ records_of(old_log, last.key) # {}
    /\ ~exists(keys, last.key)
    /\ keys # <<>>

\* C9: load(k, strict) of a key that is not in the index raises ValueError
\* when strict and returns None otherwise, and changes neither the index nor
\* the file.
C9_LoadMissing ==
    (last.op = "load" /\ ~In(last.key, old.keys)) =>
        /\ last.strict => IsValueError(last.result)
        /\ ~last.strict => last.result = Returned(None)
        /\ Untouched

\* A non-strict load of a missing key on a non-empty store returned None.
C9_Witness ==
    /\ last.op = "load"
    /\ ~last.strict
    /\ ~In(last.key, old.keys)
    /\ keys # <<>>
    /\ last.result = Returned(None)

\* C10: loads validation. No target, or a repeated target, raises ValueError
\* with the argument message; a strict loads naming a key that is not in the
\* index raises ValueError (with the missing-key message when the targets are
\* valid) and returns nothing; a loads that raises changes neither the index
\* nor the file.
C10_LoadsValidation ==
    last.op = "loads" =>
        LET targets == last.targets
            result == last.result
            repeated == \E i, j \in DOMAIN targets : i # j /\ targets[i] = targets[j]
            missing == \E i \in DOMAIN targets : ~In(targets[i], old.keys)
        IN /\ targets = <<>> => result = Raised("Please set the key one or more.")
           /\ repeated => result = Raised("Key is a duplicate.")
           /\ (last.strict /\ missing) =>
                 /\ IsValueError(result)
                 /\ result.val = None
                 /\ ~repeated =>
                       result = Raised("It contains a key that does not exist in the target")
           /\ IsValueError(result) => Untouched

\* A strict loads of one stored and one missing key raised.
C10_Witness ==
    /\ last.op = "loads"
    /\ last.strict
    /\ Len(last.targets) = 2
    /\ In(last.targets[1], old.keys)
    /\ ~In(last.targets[2], old.keys)
    /\ IsValueError(last.result)

\* The entry of kwargs at position i dropped.
without(kwargs, i) == SubSeq(kwargs, 1, i - 1) \o SubSeq(kwargs, i + 1, Len(kwargs))

\* The value load(k, strict=True) returned when the last call started, None
\* for a key that was not in the index.
value_old(k) == IF In(k, old.keys) THEN load_old(k).val ELSE None

\* C11: loads ordering. A loads that returns has one element per target, the
\* i-th being the value of the i-th target (None for a target that is not in
\* the index), whatever the order of the records in the file.
C11_LoadsOrder ==
    (last.op = "loads" /\ ~IsValueError(last.result)) =>
        /\ Len(last.result.val) = Len(last.targets)
        /\ \A i \in DOMAIN last.targets :
              last.result.val[i] = value_old(last.targets[i])

\* A loads of two stored keys asked in the opposite of their file order.
C11_Witness ==
    /\ last.op = "loads"
    /\ ~IsValueError(last.result)
    /\ Len(last.targets) = 2
    /\ \E i, j \in DOMAIN old_log :
          /\ i < j
          /\ last.targets[1] \in DOMAIN old_log[j]
          /\ last.targets[2] \in DOMAIN old_log[i]
          /\ old_log[i][last.targets[2]] # old_log[j][last.targets[1]]

\* C12 as stated: rewrite(k, v, should_add=False) of a key that is not in the
\* index changes neither the index nor the file and load(k, strict=True) still
\* raises; with should_add=True the key is added with value v.
C12_RewriteAbsent ==
    (last.op = "rewrite" /\ ~In(last.key, old.keys)) =>
        /\ ~last.should_add =>
              (Untouched /\ IsValueError(load_now(last.key)))
        /\ last.should_add =>
              (exists(keys, last.key) /\ load_now(last.key) = Returned(last.value))

\* C12 amended: as C12, the key being added with value v when should_add is
\* True and the append of the record completes.
C12_RewriteAbsentWhenAppended ==
    (last.op = "rewrite" /\ ~In(last.key, old.keys)) =>
        /\ ~last.should_add =>
              (Untouched /\ IsValueError(load_now(last.key)))
        /\ (last.should_add /\ dump_ok(last.value)) =>
              (exists(keys, last.key) /\ load_now(last.key) = Returned(last.value))

\* A rewrite with should_add=False of a missing key on a non-empty store.
C12_Witness ==
    /\ last.op = "rewrite"
    /\ ~last.should_add
    /\ dump_ok(last.value)
    /\ ~In(last.key, old.keys)
    /\ old.keys # <<>>
    /\ IsValueError(load_now(last.key))

\* C13: per-key add failure. An entry of a new key whose append raises is not
\* added to the index and the call has the effect of the same call without
\* that entry; afterwards load(k, strict=True) returns for every key of the
\* index its value: the one it had, or the one the batch gave it.
C13_AddFailureIsPerKey ==
    last.op = "add" =>
        /\ \A i \in DOMAIN last.kwargs :
              LET e == last.kwargs[i] IN
              (~In(e.key, old.keys) /\ ~dump_ok(e.value)) =>
                  /\ ~In(e.key, keys)
                  /\ [keys |-> keys, fs |-> fs] =
                        add(old.keys, file, old.fs, without(last.kwargs, i))
                  /\ \A j \in DOMAIN last.kwargs :
                        LET f == last.kwargs[j] IN
                        (~In(f.key, old.keys) /\ dump_ok(f.value)) =>
                            load_now(f.key) = Returned(f.value)
        /\ \A k \in Keys :
              In(k, keys) =>
                  /\ ~IsValueError(load_now(k))
                  /\ In(k, old.keys) => load_now(k) = load_old(k)

\* An add whose first entry failed and whose second entry was added.
C13_Witness ==
    /\ last.op = "add"
    /\ Len(last.kwargs) = 2
    /\ ~In(last.kwargs[1].key, old.keys)
    /\ ~dump_ok(last.kwargs[1].value)
    /\ ~In(last.kwargs[1].key, keys)
    /\ ~In(last.kwargs[2].key, old.keys)
    /\ load_now(last.kwargs[2].key) = Returned(last.kwargs[2].value)

\* The keys of the records show prints, in file order.
shown_keys == [i \in DOMAIN log |-> CHOOSE k \in DOMAIN log[i] : TRUE]

\* C15: no stale record. After every completed call, __exit__ included, the
\* keys of the records in the file are the key list of the index, in order.
C15_FileMatchesIndex == shown_keys = keys

\* A remove that dropped the record of a key stored before another key.
C15_Witness ==
    /\ last.op = "remove"
    /\ Len(old.keys) >= 2
    /\ old.keys[1] = last.key
    /\ Len(old_log) = Len(log) + 1
    /\ shown_keys = keys

\* C16: the index never holds a key twice, also right after it is rebuilt
\* from the file; after remove(k), exists(k) is false.
C16_NoDuplicateKeys ==
    /\ \A k \in Keys : Cardinality(positions_of(keys, k)) <= 1
    /\ last.op = "remove" => ~exists(keys, last.key)

\* An index of three keys rebuilt by DataManager(file, create_newly=False).
C16_Witness ==
    /\ last.op = "open"
    /\ ~last.create_newly
    /\ Len(keys) = 3
    /\ Len(old_log) = 3

\* The frames of a file whose key is in a key list, in file order.
surviving(keys_, frames) == SelectSeq(frames, LAMBDA fr : In(fr[1], keys_))

\* The calls that end with _update.
Compacted == last.op \in {"open", "close", "remove"}

\* C17: compaction keeps the records whose key is in the index, byte for byte
\* and in their order, drops the others, and changes nothing when run again.
\* The same holds of a compaction of the current file for any part of the
\* index.
C17_CompactionKeepsLiveRecords ==
    /\ Compacted =>
          /\ fs[file].data = surviving(keys, old.fs[file].data)
          /\ _update(keys, file, fs) = fs
    /\ \A K \in SUBSET Keys :
          LET part == SelectSeq(keys, LAMBDA k : k \in K)
              once == _update(part, file, fs)
          IN /\ once[file].data = surviving(part, fs[file].data)
             /\ _update(part, file, once) = once

\* A remove that dropped the first of three records and kept the other two.
C17_Witness ==
    /\ last.op = "remove"
    /\ Len(old_log) = 3
    /\ last.key \in DOMAIN old_log[1]
    /\ Len(log) = 2
    /\ fs[file].data = Tail(old.fs[file].data)

\* C18: rewrite is delete-then-append. A rewrite(k, v2) of a key of the index
\* whose append raises leaves k in neither the index nor the file: load(k,
\* strict=True) raises and the old value is gone.
C18_RewriteNotAtomic ==
    (last.op = "rewrite" /\ In(last.key, old.keys) /\ ~dump_ok(last.value)) =>
        /\ ~exists(keys, last.key)
        /\ records_of(log, last.key) = {}
        /\ IsValueError(load_now(last.key))
        /\ keys = del_first(old.keys, last.key)

\* A rewrite with an unpicklable value of a key that had a value.
C18_Witness ==
    /\ last.op = "rewrite"
    /\ ~dump_ok(last.value)
    /\ ~IsValueError(load_old(last.key))
    /\ IsValueError(load_now(last.key))
    /\ keys # <<>>

\* ------------------------------------------------- _update, step by step
\* The same calls with _update run one statement at a time, and the process
\* dying between two statements. While _update runs, last is
\*   [op |-> "_update", pc, n, buf, call, then]
\* pc the statement to run next, n the number of dicts the generator has
\* yielded, buf the frames written to tmp's buffer and not yet on disk, call
\* the record of the call that runs _update, then the kwargs that call adds
\* once _update has returned.
Running == last.op = "_update"
Crashed == last.op = "crash"
Idle == ~Running /\ ~Crashed

\* The start of _update inside a call.
Enter(call, then) ==
    [op |-> "_update", pc |-> "open_tmp", n |-> 0, buf |-> <<>>,
     call |-> call, then |-> then]

\* f.write(pickle.dumps(dict_)) for the next scanned dict, if its key is live.
scan_one(keys_, buf, dict_) ==
    IF \E key \in DOMAIN dict_ : In(key, keys_)
    THEN Append(buf, pickle_dumps(dict_))
    ELSE buf

\* The buffer of tmp reaching the disk.
flush_tmp(fs_, buf) == [fs_ EXCEPT ![tmp].data = @ \o buf]

\* __init__ up to the _update of _setup_keys.
BeginOpen(create_newly) ==
    /\ ~Running
    /\ keys' = IF ~create_newly THEN scanned_keys(_get_generator(file, fs)) ELSE <<>>
    /\ last' = Enter([op |-> "open", create_newly |-> create_newly,
                      prev |-> last.op], <<>>)
    /\ old' = Found
    /\ UNCHANGED <<file, fs>>

\* __exit__ up to its _update.
BeginClose ==
    /\ Idle
    /\ last' = Enter([op |-> "close"], <<>>)
    /\ old' = Found
    /\ UNCHANGED <<keys, file, fs>>

\* remove(key) up to its _update; the whole call for a key that is missing.
BeginRemove(key) ==
    /\ Idle
    /\ IF In(key, keys)
       THEN /\ keys' = del_first(keys, key)
            /\ last' = Enter([op |-> "remove", key |-> key], <<>>)
       ELSE /\ keys' = keys
            /\ last' = [op |-> "remove", key |-> key]
    /\ old' = Found
    /\ UNCHANGED <<file, fs>>

\* rewrite(key, value, should_add) up to the _update of its remove; the whole
\* call for a key that is missing.
BeginRewrite(key, value, should_add) ==
    LET call == [op |-> "rewrite", key |-> key, value |-> value,
                 should_add |-> should_add]
        kwargs == <<[key |-> key, value |-> value]>>
    IN /\ Idle
       /\ IF In(key, keys)
          THEN /\ keys' = del_first(keys, key)
               /\ fs' = fs
               /\ last' = Enter(call, kwargs)
          ELSE LET r == IF should_add
                        THEN add(keys, file, fs, kwargs)
                        ELSE [keys |-> keys, fs |-> fs]
               IN /\ keys' = r.keys
                  /\ fs' = r.fs
                  /\ last' = call
       /\ old' = Found
       /\ UNCHANGED file

\* add of one entry.
StepAdd(e) == Idle /\ Add(<<e>>)

\* line 154: open(tmp, 'wb')
UpdOpenTmp ==
    /\ Running /\ last.pc = "open_tmp"
    /\ fs' = update_open_tmp(fs)
    /\ last' = [last EXCEPT !.pc = "scan"]
    /\ UNCHANGED <<keys, file, old>>

\* lines 155-158: the generator yields one more dict and the loop body runs.
UpdScan ==
    LET dicts == _get_generator(file, fs)
    IN /\ Running /\ last.pc = "scan"
       /\ last.n < Len(dicts)
       /\ last' = [last EXCEPT !.n = @ + 1,
                               !.buf = scan_one(keys, @, dicts[last.n + 1])]
       /\ UNCHANGED <<keys, file, fs, old>>

\* The buffer of tmp is written out before the file is closed.
UpdFlush ==
    /\ Running /\ last.pc = "scan"
    /\ last.buf # <<>>
    /\ fs' = flush_tmp(fs, last.buf)
    /\ last' = [last EXCEPT !.buf = <<>>]
    /\ UNCHANGED <<keys, file, old>>

\* The generator is exhausted: the with block closes tmp.
UpdCloseTmp ==
    /\ Running /\ last.pc = "scan"
    /\ last.n >= Len(_get_generator(file, fs))
    /\ fs' = flush_tmp(fs, last.buf)
    /\ last' = [last EXCEPT !.buf = <<>>, !.pc = "open_file"]
    /\ UNCHANGED <<keys, file, old>>

\* line 159: open(tmp, 'rb'), open(self.__file, 'wb')
UpdOpenFile ==
    /\ Running /\ last.pc = "open_file"
    /\ fs' = update_open_file(file, fs)
    /\ last' = [last EXCEPT !.pc = "copy"]
    /\ UNCHANGED <<keys, file, old>>

\* line 160 and the end of the with block: o.write(i.read()), both files closed.
UpdCopy ==
    /\ Running /\ last.pc = "copy"
    /\ fs' = update_copy(file, fs)
    /\ last' = [last EXCEPT !.pc = "unlink"]
    /\ UNCHANGED <<keys, file, old>>

\* line 161: tmp.unlink(); _update returns and the call runs to its end.
UpdUnlink ==
    LET r == add(keys, file, update_unlink(fs), last.then)
    IN /\ Running /\ last.pc = "unlink"
       /\ keys' = r.keys
       /\ fs' = r.fs
       /\ last' = last.call
       /\ UNCHANGED <<file, old>>

\* The process dies before the statement at pc: __keys and the buffer are
\* lost, the files stay as they are on disk.
Crash ==
    /\ Running
    /\ keys' = <<>>
    /\ last' = [op |-> "crash", at |-> last.pc, call |-> last.call]
    /\ UNCHANGED <<file, fs, old>>

NextSteps ==
    \/ \E create_newly \in BOOLEAN : BeginOpen(create_newly)
    \/ BeginClose
    \/ \E key \in Keys : BeginRemove(key)
    \/ \E key \in Keys, value \in Objects, should_add \in BOOLEAN :
          BeginRewrite(key, value, should_add)
    \/ \E e \in Entries : StepAdd(e)
    \/ UpdOpenTmp
    \/ UpdScan
    \/ UpdFlush
    \/ UpdCloseTmp
    \/ UpdOpenFile
    \/ UpdCopy
    \/ UpdUnlink
    \/ Crash

SpecSteps == Init /\ [][NextSteps]_vars

\* The statements of _update's temp-write phase: tmp is opened and written,
\* the management file is not yet opened for writing.
TempWritePhase == {"open_tmp", "scan", "open_file"}

\* C14: while _update is in its temp-write phase, and after a crash in that
\* phase, the management file is what it was when the call started.
C14_TempWriteLeavesLog ==
    /\ (Running /\ last.pc \in TempWritePhase) => fs[file] = old.fs[file]
    /\ (Crashed /\ last.at \in TempWritePhase) => fs[file] = old.fs[file]

\* A crash of a remove during the scan, part of tmp on disk, the file of two
\* or more records untouched.
C14_Witness ==
    /\ Crashed
    /\ last.at = "scan"
    /\ last.call.op = "remove"
    /\ fs[tmp].data # <<>>
    /\ Len(fs[file].data) >= 2
    /\ fs[file] = old.fs[file]

\* The records of the live keys, as the file held them when the call started.
live_at_start == surviving(keys, old.fs[file].data)

\* C19: at every step of _update the management file or tmp holds the records
\* of all live keys; tmp exists from its creation until the file has been
\* rewritten, and is gone, the file rewritten, when _update has returned.
C19_OneFileComplete ==
    /\ Running =>
          /\ \/ surviving(keys, fs[file].data) = live_at_start
             \/ fs[tmp].exists /\ fs[tmp].data = live_at_start
          /\ last.pc # "open_tmp" => fs[tmp].exists
          /\ last.pc = "unlink" => fs[file].data = live_at_start
    /\ (Compacted /\ (last.op = "remove" => In(last.key, old.keys))) =>
          /\ ~fs[tmp].exists
          /\ fs[file].data = live_at_start
          /\ fs = _update(keys, file, old.fs)

\* _update between the truncation of the file and the copy: the file is
\* empty and tmp holds the two live records.
C19_Witness ==
    /\ Running
    /\ last.pc = "copy"
    /\ last.call.op = "remove"
    /\ fs[file].data = <<>>
    /\ Len(fs[tmp].data) >= 2
    /\ fs[tmp].data = live_at_start

\* ------------------------------------------------------------ _setup_file
\* File names as tuples of characters, and the spelling of each path.
Spelling ==
    [p \in Paths |->
        IF p = tmp
        THEN <<"t", "m", "p", ".", "p", "k", "l">>
        ELSE <<"d", "a", "t", "a", ".", "p", "k", "l">>]

\* The path a tuple of characters spells.
as_path(chars) == CHOOSE p \in Paths : Spelling[p] = chars

\* get_extension(file): what follows the last '.', <<>> standing for None
\* (no '.', or nothing after the last one).
get_extension(chars) ==
    LET dots == {i \in DOMAIN chars : chars[i] = "."}
    IN IF dots = {} \/ chars[Len(chars)] = "."
       THEN <<>>
       ELSE LET last_dot == CHOOSE i \in dots : \A j \in dots : j <= i
            IN SubSeq(chars, last_dot + 1, Len(chars))

\* _setup_file(file_name): the name of the management file.
_setup_file(chars) ==
    IF get_extension(chars) = <<>>
    THEN IF chars[Len(chars)] # "."
         THEN chars \o <<".", "p", "k", "l">>
         ELSE chars \o <<"p", "k", "l">>
    ELSE chars

\* The file_name arguments that make the management file tmp.pkl.
TmpNames ==
    { <<"t", "m", "p">>,
      <<"t", "m", "p", ".">>,
      <<"t", "m", "p", ".", "p", "k", "l">> }

\* A first DataManager('tmp'), DataManager('tmp.') or DataManager('tmp.pkl').
InitTmp == \E file_name \in TmpNames : InitFor(as_path(_setup_file(file_name)))

\* The calls made on that store, add taking one entry at a time.
NextTmp ==
    \/ \E create_newly \in BOOLEAN : Open(create_newly)
    \/ Close
    \/ \E e \in Entries : Add(<<e>>)
    \/ \E key \in Keys, strict \in BOOLEAN : Load(key, strict)
    \/ \E key \in Keys : Remove(key)
    \/ \E key \in Keys, value \in Objects, should_add \in BOOLEAN :
          Rewrite(key, value, should_add)

SpecTmp == InitTmp /\ [][NextTmp]_vars

\* The last call ran _update.
RanUpdate ==
    \/ last.op \in {"open", "close"}
    \/ last.op = "remove" /\ In(last.key, old.keys)

\* C20: the store whose management file is tmp.pkl. Opening tmp for writing
\* empties the management file before the scan, so after every _update the
\* file holds no record (it is unlinked) while the index keeps its keys, and
\* load(k, strict=True) raises for every key of the index.
C20_TmpNameCollision ==
    /\ file = tmp
    /\ RanUpdate =>
          /\ _get_generator(file, update_open_tmp(old.fs)) = <<>>
          /\ log = <<>>
          /\ ~fs[file].exists
          /\ last.op = "close" => keys = old.keys
          /\ last.op = "remove" => keys = del_first(old.keys, last.key)
          /\ (last.op = "open" /\ ~last.create_newly) => keys = scanned_keys(old_log)
          /\ \A k \in Keys : In(k, keys) => IsValueError(load_now(k))

\* A close of a store of two keys whose file held their records.
C20_Witness ==
    /\ file = tmp
    /\ last.op = "close"
    /\ Len(keys) >= 2
    /\ Len(old_log) >= 2
    /\ ~IsValueError(load_old(keys[1]))
    /\ IsValueError(load_now(keys[1]))
    /\ log = <<>>

====
